---- MODULE Spec2Model ----
(***************************************************************************)
(* State-machine model of the planning and optimization service of        *)
(* src/application.py: the in-memory deployment plan (module globals,     *)
(* lines 125-138), the database tables it reads and writes, and one       *)
(* action per request handler.  A handler that raises part-way leaves the *)
(* globals it has already assigned changed; the handlers are therefore    *)
(* written as pure operators from a session record to the session the     *)
(* handler leaves behind together with the kind of answer it gives:       *)
(*   "success"  the handler returned {'result': 'success'}                *)
(*   "failed"   the handler returned {'result': 'failed'}                 *)
(*   "error"    the handler raised (the framework answers 500)            *)
(* Ratios the code computes in floating point are kept as exact reduced   *)
(* fractions [num, den]; distances are integers.                          *)
(***************************************************************************)
EXTENDS Integers, Sequences, FiniteSets, TLC

----------------------------------------------------------------------------
(* Bounds of the model *)

\* Number of requests in a behaviour.
MaxOps == 3

\* Patrol capacity of the largest district.
MaxPatrols == 2

----------------------------------------------------------------------------
(* Program parameters, lines 140-179 *)

n_crimes_per_patrol == 6
upper_penalty_threshold == 150
lower_penalty_threshold == 25

\* Every configured crime type has weight 1 (lines 156-179); two of the
\* twenty-two keys stand for the table.
crimetype_weights == [t \in {"THEFT", "HOMICIDE"} |-> 1]

----------------------------------------------------------------------------
(* Arithmetic helpers *)

Abs(x) == IF x < 0 THEN -x ELSE x

RECURSIVE GCD(_, _)
GCD(a, b) == IF b = 0 THEN Abs(a) ELSE GCD(b, a % b)

\* The exact value n/d (d # 0) as a reduced fraction with positive denominator.
Frac(n, d) ==
    LET g == GCD(Abs(n), Abs(d))
        sgn == IF d < 0 THEN -1 ELSE 1
    IN [num |-> sgn * (n \div g), den |-> sgn * (d \div g)]

FracZero == [num |-> 0, den |-> 1]

RECURSIVE Sum(_, _)
\* Sum of f[x] over the finite set S.
Sum(f, S) ==
    IF S = {} THEN 0
    ELSE LET x == CHOOSE y \in S : TRUE IN f[x] + Sum(f, S \ {x})

RECURSIVE SortedSeq(_)
\* The elements of a finite set of integers in ascending order: the order
\* in which the handlers meet the keys of a dict filled in table order.
SortedSeq(S) ==
    IF S = {} THEN <<>>
    ELSE LET m == CHOOSE x \in S : \A y \in S : x <= y
         IN <<m>> \o SortedSeq(S \ {m})

\* dict[k] = v, inserting the key when it is new.
Put(f, k, v) == [x \in (DOMAIN f) \cup {k} |-> IF x = k THEN v ELSE f[x]]

EmptyDict == [x \in {} |-> 0]

----------------------------------------------------------------------------
(* Request texts and their decoding *)

\* The date and period arguments arrive as JSON texts (lines 290, 293).
RawDates == {"\"01-01-2019\"", "\"01-02-2019\""}
RawPeriods == {"\"MORNING\""}

\* json.loads of a JSON string literal: the text between the quotes.
json_loads(text) ==
    CASE text = "\"01-01-2019\"" -> "01-01-2019"
      [] text = "\"01-02-2019\"" -> "01-02-2019"
      [] text = "\"MORNING\"" -> "MORNING"

\* datetime.strptime(s, '%m-%d-%Y').date(), written in ISO form.
strptime_date(s) ==
    CASE s = "01-01-2019" -> "2019-01-01"
      [] s = "01-02-2019" -> "2019-01-02"

\* int() of a decimal text (line 336).
Digits == <<"0", "1", "2", "3", "4", "5", "6", "7", "8", "9">>
int(text) == (CHOOSE i \in 1..Len(Digits) : Digits[i] = text) - 1

----------------------------------------------------------------------------
(* Database tables, lines 71-119 *)

CommunityIds == {1, 2, 3, 4}
DistrictIds == {1, 2}

\* Rows of table community: id -> code, ethnicity (name is display only).
\* Ethnicity 0 or 1 puts the community in fairness group 1, anything else
\* in group 0 (line 188).
CommunityRow(i, e) == [id |-> i, code |-> i, ethnicity |-> e]
\* two communities in each fairness group
CommunitiesEven == [i \in CommunityIds |-> CommunityRow(i, IF i \in {1, 3} THEN (i - 1) \div 2 ELSE 2)]
\* one community alone in group 0
CommunitiesSingle == [i \in CommunityIds |-> CommunityRow(i, IF i = 4 THEN 2 ELSE 1)]
\* group 0 empty
CommunitiesOneGroup == [i \in CommunityIds |-> CommunityRow(i, i % 2)]
\* two communities, one in each fairness group
CommunitiesPair == [i \in {1, 2} |-> CommunityRow(i, i)]
\* codes that are not the ids: 2, 1, 4, 3
CommunitiesRecoded ==
    [i \in CommunityIds |->
        [CommunitiesEven[i] EXCEPT !.code = IF i % 2 = 1 THEN i + 1 ELSE i - 1]]

\* Rows of table policedistrict: id -> patrols.
PoliceDistrictTable ==
    [i \in DistrictIds |-> [id |-> i, patrols |-> IF i = 1 THEN MaxPatrols ELSE 1]]

\* Rows of table distances, keyed as the handler keys them (line 331).
AllPairs == DistrictIds \X CommunityIds
DistanceOf(p) == IF p[1] = 1 THEN p[2] ELSE 6 - p[2]
DistancesFull == [p \in AllPairs |-> DistanceOf(p)]
DistancesMissing == [p \in AllPairs \ {<<2, 4>>} |-> DistanceOf(p)]
DistancesPair == [p \in DistrictIds \X {1, 2} |-> DistanceOf(p)]

\* Rows of table patroldeployment before the first request.  The date and
\* period columns hold whatever was stored: the load handler compares them
\* with the request's undecoded texts (lines 346-347), the save handler
\* stores the decoded values (line 553).
DeploymentRow(dt, pr, d, c, n) ==
    [date |-> dt, period |-> pr, district |-> d, community |-> c, patrols |-> n]
DeploymentsStored ==
    << DeploymentRow("\"01-01-2019\"", "\"MORNING\"", 1, 1, 1),
       DeploymentRow("\"01-01-2019\"", "\"MORNING\"", 1, 2, 1),
       DeploymentRow("2019-01-02", "MORNING", 2, 3, 1) >>
DeploymentsOver ==
    << DeploymentRow("\"01-01-2019\"", "\"MORNING\"", 2, 4, 1),
       DeploymentRow("\"01-02-2019\"", "\"MORNING\"", 2, 3, 2) >>

\* The databases the service is started on.
Tables(c, d, p) == [community |-> c, distances |-> d, patroldeployment |-> p]
Databases ==
    { Tables(CommunitiesEven, DistancesFull, <<>>),
      Tables(CommunitiesEven, DistancesFull, DeploymentsStored),
      Tables(CommunitiesEven, DistancesMissing, DeploymentsOver),
      Tables(CommunitiesSingle, DistancesFull, <<>>),
      Tables(CommunitiesOneGroup, DistancesFull, <<>>),
      Tables(CommunitiesPair, DistancesPair, <<>>),
      Tables(CommunitiesRecoded, DistancesFull, <<>>) }

----------------------------------------------------------------------------
(* Answers of the crime prediction service, lines 294-300 *)

Prediction(area, type, n) == [communityArea |-> area, primaryType |-> type, pred |-> n]

\* ok = FALSE: the request raised or the answer has no 'result' (line 299).
PredictionAnswers ==
    { [ok |-> FALSE, result |-> <<>>],
      [ok |-> TRUE, result |-> <<>>],
      [ok |-> TRUE, result |-> << Prediction("1", "THEFT", 6), Prediction("2", "THEFT", 3),
                                  Prediction("0", "THEFT", 5), Prediction("3", "HOMICIDE", 6),
                                  Prediction("None", "THEFT", 2), Prediction("4", "THEFT", 12),
                                  Prediction("1", "None", 1), Prediction("1", "HOMICIDE", 6) >>],
      [ok |-> TRUE, result |-> << Prediction("1", "THEFT", 6), Prediction("3", "THEFT", 6) >>],
      [ok |-> TRUE, result |-> << Prediction("1", "THEFT", 4), Prediction("2", "THEFT", 6) >>],
      [ok |-> TRUE, result |-> << Prediction("2", "THEFT", 3), Prediction("2", "BURGLARY", 4) >>],
      [ok |-> TRUE, result |-> << Prediction("4", "THEFT", 3), Prediction("7", "THEFT", 4) >>],
      [ok |-> TRUE, result |-> << Prediction("2", "THEFT", 6), Prediction("3", "THEFT", 6) >>] }

----------------------------------------------------------------------------
(* State *)

VARIABLES
    \* in-memory model, lines 125-138
    unset,             \* the dict globals still hold None
    loaded, date, period, communities, policeDistricts, deployments,
    distances, crimecounts, totalCoverage, mapCoverage, mapCrimes,
    mapDeploys, distanceCost, fairness,
    \* database tables
    dbCommunity, dbPoliceDistrict, dbDistance, dbPatrolDeployment,
    \* the last request, its answer, and the number of requests so far
    op, result, nops,
    \* a runOptimization request served step by step next to other requests:
    \* its position and local values, and what a getLoadedDeploymentPlan
    \* served meanwhile returned
    thread, observed

memVars == <<unset, loaded, date, period, communities, policeDistricts, deployments,
             distances, crimecounts, totalCoverage, mapCoverage, mapCrimes,
             mapDeploys, distanceCost, fairness>>
dbVars == <<dbCommunity, dbPoliceDistrict, dbDistance, dbPatrolDeployment>>
threadVars == <<thread, observed>>
vars == <<memVars, dbVars, op, result, nops, threadVars>>

\* The globals as one record, the argument and value of the handlers.
Session ==
    [unset |-> unset, loaded |-> loaded, date |-> date, period |-> period,
     communities |-> communities, policeDistricts |-> policeDistricts,
     deployments |-> deployments, distances |-> distances,
     crimecounts |-> crimecounts, totalCoverage |-> totalCoverage,
     mapCoverage |-> mapCoverage, mapCrimes |-> mapCrimes,
     mapDeploys |-> mapDeploys, distanceCost |-> distanceCost,
     fairness |-> fairness]

SetSession(s) ==
    /\ unset' = s.unset
    /\ loaded' = s.loaded
    /\ date' = s.date
    /\ period' = s.period
    /\ communities' = s.communities
    /\ policeDistricts' = s.policeDistricts
    /\ deployments' = s.deployments
    /\ distances' = s.distances
    /\ crimecounts' = s.crimecounts
    /\ totalCoverage' = s.totalCoverage
    /\ mapCoverage' = s.mapCoverage
    /\ mapCrimes' = s.mapCrimes
    /\ mapDeploys' = s.mapDeploys
    /\ distanceCost' = s.distanceCost
    /\ fairness' = s.fairness

\* Values of the fairness global: the number 0 of a reset (lines 317, 707),
\* the percentage (1 - cdf(|t|, df)) * 2 * 100 kept as the square of t and
\* df, which determine it (lines 372-374), and the solver expression that
\* the model build assigns to the same global (line 650).
FairnessReset == [kind |-> "reset", num |-> 0, den |-> 1, df |-> 0]
FairnessExpr == [kind |-> "cpx_expr", num |-> 0, den |-> 1, df |-> 0]

\* Answers of a handler.
Success(s) == [s |-> s, result |-> "success"]
Failed(s) == [s |-> s, result |-> "failed"]
Raised(s) == [s |-> s, result |-> "error"]

----------------------------------------------------------------------------
(* KPI computations shared by the handlers *)

\* deployments[comm][district] of a defaultdict(int) without inserting.
Cell(plan, comm, district) ==
    IF district \in DOMAIN plan[comm].cells THEN plan[comm].cells[district] ELSE 0

\* Coverage of one community (lines 352-356, 431-435, 503-507, 722-726).
CoverageOf(total, weighted_count) ==
    IF weighted_count # 0
    THEN Frac(total * n_crimes_per_patrol * 100, weighted_count)
    ELSE FracZero

\* Sums of the loop of lines 363-365 (442-444, 514-516).
TotalCrimes(s) ==
    Sum([c \in DOMAIN s.deployments |->
            s.crimecounts[s.communities[c].code].weighted_count], DOMAIN s.deployments)
TotalDeploys(s) ==
    Sum([c \in DOMAIN s.deployments |-> s.deployments[c].total], DOMAIN s.deployments)

\* calculateFairnessTStat with cpxMode = False, lines 183-217.  The value
\* is the square of t as a fraction (the callers take abs(t)) and df, or
\* raised = TRUE where a division by zero ends the call.
FairnessRaised == [raised |-> TRUE, num |-> 0, den |-> 1, df |-> 0]
calculateFairnessTStat(comms, deploymentPlan) ==
    LET g1 == {c \in DOMAIN deploymentPlan : comms[c].ethnicity \in {0, 1}}
        g0 == (DOMAIN deploymentPlan) \ g1
        tot == [c \in DOMAIN deploymentPlan |-> deploymentPlan[c].total]
        sq == [c \in DOMAIN deploymentPlan |-> tot[c] * tot[c]]
        n0 == Cardinality(g0)
        n1 == Cardinality(g1)
        d0 == Sum(tot, g0)
        d1 == Sum(tot, g1)
        df == n0 + n1 - 2
        \* n*(n-1)*variance of each group
        a0 == n0 * Sum(sq, g0) - d0 * d0
        a1 == n1 * Sum(sq, g1) - d1 * d1
        \* sigma squared is sn / (n0^2 (n0-1) n1^2 (n1-1) df)
        sn == a0 * a0 * n1 * n1 * (n1 - 1) + a1 * a1 * n0 * n0 * (n0 - 1)
        diff == d0 * n1 - d1 * n0
    IN  IF d0 = 0 /\ d1 = 0 THEN [raised |-> FALSE, num |-> 0, den |-> 1, df |-> df]
        ELSE IF n0 = 0 \/ n1 = 0 THEN FairnessRaised              \* line 201
        ELSE IF n0 = 1 \/ n1 = 1 THEN FairnessRaised              \* line 211
        ELSE IF sn = 0 THEN FairnessRaised                        \* line 215
        ELSE LET q == Frac(diff * diff * n0 * (n0 - 1) * n1 * (n1 - 1) * df,
                           (n0 + n1) * sn)
             IN [raised |-> FALSE, num |-> q.num, den |-> q.den, df |-> df]

\* fairness = (1 - t.cdf(abs(t_stat), df)) * 2 * 100, lines 372-374: the
\* distribution function is not a number (nan) for df <= 0.
FairnessScore(ts) ==
    IF ts.df <= 0 THEN [kind |-> "nan", num |-> 0, den |-> 1, df |-> ts.df]
    ELSE [kind |-> "pvalue", num |-> ts.num, den |-> ts.den, df |-> ts.df]

\* Lines 439-453 left out: total coverage and fairness stay as they were.
RecalculateTotals_Stale(s) == Success(s)

\* Total coverage and fairness, lines 439-453 (360-374, 511-525).
RecalculateTotals(s) ==
    IF TotalCrimes(s) = 0 THEN Raised(s)                          \* line 445
    ELSE LET s1 == [s EXCEPT !.totalCoverage =
                        Frac(TotalDeploys(s) * n_crimes_per_patrol * 100, TotalCrimes(s))]
             ts == calculateFairnessTStat(s1.communities, s1.deployments)
         IN IF ts.raised THEN Raised(s1)
            ELSE Success([s1 EXCEPT !.fairness = FairnessScore(ts)])

\* Map coverage and map deploys of one community, lines 431-436.
RecalculateCommunity(s, community) ==
    LET code == s.communities[community].code
        total == s.deployments[community].total
    IN [s EXCEPT !.mapCoverage =
                     Put(@, code, CoverageOf(total, s.crimecounts[code].weighted_count)),
                 !.mapDeploys = Put(@, code, total)]

\* Line 403 without its last operand.
NotLoaded_OnlyNone(s) == s.unset

NotLoaded(s) == s.unset \/ ~s.loaded                              \* line 403

----------------------------------------------------------------------------
(* deployPatrols.get, lines 385-458 *)

\* Lines 424-428 without line 426: the community total is not updated.
DeployCells_TotalForgotten(s, district, community, patrols) ==
    [s EXCEPT !.deployments[community].cells =
                  Put(@, district, Cell(s.deployments, community, district) + patrols),
              !.policeDistricts[district].available_patrols = @ - patrols,
              !.policeDistricts[district].deployed_patrols = @ + patrols]

\* Lines 424-428.
DeployCells(s, district, community, patrols) ==
    [s EXCEPT !.deployments[community].cells =
                  Put(@, district, Cell(s.deployments, community, district) + patrols),
              !.deployments[community].total = @ + patrols,
              !.policeDistricts[district].available_patrols = @ - patrols,
              !.policeDistricts[district].deployed_patrols = @ + patrols]

\* The check of line 421.
DeployRefused(s, district, patrols) ==
    s.policeDistricts[district].available_patrols < patrols

\* Line 437.
DeployDistance(s, district, community, patrols) ==
    [s EXCEPT !.distanceCost = @ + patrols * s.distances[<<district, community>>]]

deployPatrols_get(s, district, community, patrols) ==
    IF NotLoaded(s) THEN Failed(s)
    ELSE IF district \notin DOMAIN s.policeDistricts THEN Raised(s)   \* line 421
    ELSE IF DeployRefused(s, district, patrols) THEN Failed(s)
    ELSE IF community \notin DOMAIN s.deployments THEN Raised(s)      \* line 425
    ELSE LET s1 == DeployCells(s, district, community, patrols)
             s2 == RecalculateCommunity(s1, community)
         IN IF <<district, community>> \notin DOMAIN s.distances
            THEN Raised(s2)                                           \* line 437
            ELSE RecalculateTotals(DeployDistance(s2, district, community, patrols))

----------------------------------------------------------------------------
(* undeployPatrols.get, lines 460-530 *)

\* Reading deployments[community][district] at line 494 inserts the key
\* with value 0 when the defaultdict does not hold it.
TouchCell(s, district, community) ==
    [s EXCEPT !.deployments[community].cells =
                  Put(@, district, Cell(s.deployments, community, district))]

\* The check of line 494 made against the community's total instead of the
\* cell.
UndeployRefused_ByTotal(s, district, community, patrols) ==
    s.deployments[community].total < patrols

\* The check of line 494.
UndeployRefused(s, district, community, patrols) ==
    Cell(s.deployments, community, district) < patrols

\* Lines 497-498.
UndeployCells(s, district, community, patrols) ==
    [s EXCEPT !.deployments[community].cells =
                  Put(@, district, Cell(s.deployments, community, district) - patrols),
              !.deployments[community].total = @ - patrols]

\* Lines 499-500 without line 500: the deployed counter is not updated.
UndeployCounters_DeployedForgotten(s, district, patrols) ==
    [s EXCEPT !.policeDistricts[district].available_patrols = @ + patrols]

\* Lines 499-500.
UndeployCounters(s, district, patrols) ==
    [s EXCEPT !.policeDistricts[district].available_patrols = @ + patrols,
              !.policeDistricts[district].deployed_patrols = @ - patrols]

\* Line 509 with the sign of line 437.
UndeployDistance_Added(s, district, community, patrols) ==
    [s EXCEPT !.distanceCost = @ + patrols * s.distances[<<district, community>>]]

\* Line 509.
UndeployDistance(s, district, community, patrols) ==
    [s EXCEPT !.distanceCost = @ - patrols * s.distances[<<district, community>>]]

undeployPatrols_get(s, district, community, patrols) ==
    IF NotLoaded(s) THEN Failed(s)
    ELSE IF community \notin DOMAIN s.deployments THEN Raised(s)      \* line 494
    ELSE LET s0 == TouchCell(s, district, community)
         IN IF UndeployRefused(s0, district, community, patrols) THEN Failed(s0)
            ELSE LET s1 == UndeployCells(s0, district, community, patrols)
                 IN IF district \notin DOMAIN s.policeDistricts
                    THEN Raised(s1)                                   \* line 499
                    ELSE LET s2 == RecalculateCommunity(
                                       UndeployCounters(s1, district, patrols), community)
                         IN IF <<district, community>> \notin DOMAIN s.distances
                            THEN Raised(s2)                           \* line 509
                            ELSE RecalculateTotals(
                                    UndeployDistance(s2, district, community, patrols))

----------------------------------------------------------------------------
(* loadDeploymentPlan.get, lines 254-382 *)

\* Lines 290-293: the date and period globals are assigned before the
\* prediction service is asked.
LoadKey(s, args_date, args_period) ==
    [s EXCEPT !.date = strptime_date(json_loads(args_date)),
              !.period = json_loads(args_period)]

\* Lines 302-317.
LoadReset(s) ==
    [s EXCEPT !.unset = FALSE,
              !.communities = EmptyDict, !.policeDistricts = EmptyDict,
              !.deployments = EmptyDict, !.distances = EmptyDict,
              !.crimecounts = EmptyDict, !.mapCoverage = EmptyDict,
              !.mapCrimes = EmptyDict, !.mapDeploys = EmptyDict,
              !.totalCoverage = FracZero, !.distanceCost = 0,
              !.fairness = FairnessReset]

\* Lines 319-327; the rows come in id order.
LoadCommunities(s, table) ==
    LET codes == {table[i].code : i \in DOMAIN table}
    IN [s EXCEPT !.communities = table,
                 !.deployments = [i \in DOMAIN table |-> [cells |-> EmptyDict, total |-> 0]],
                 !.crimecounts = [k \in codes |-> [absolute_count |-> 0, weighted_count |-> 0]],
                 !.mapCoverage = [k \in codes |-> FracZero],
                 !.mapCrimes = [k \in codes |-> 0],
                 !.mapDeploys = [k \in codes |-> 0]]

\* Lines 333-338, one prediction after the other.  The counts are keyed by
\* community code; line 338 looks the code up among the community ids.
RECURSIVE LoadPredictions(_, _)
LoadPredictions(s, preds) ==
    IF preds = <<>> THEN Success(s)
    ELSE LET pred == Head(preds) IN
         IF pred.communityArea = "None" \/ pred.primaryType = "None"
               \/ pred.communityArea = "0"
         THEN LoadPredictions(s, Tail(preds))
         ELSE LET area == int(pred.communityArea) IN
              IF area \notin DOMAIN s.crimecounts THEN Raised(s)        \* line 336
              ELSE LET s1 == [s EXCEPT !.crimecounts[area].absolute_count = @ + pred.pred] IN
                   IF pred.primaryType \notin DOMAIN crimetype_weights
                   THEN Raised(s1)                                       \* line 337
                   ELSE LET s2 == [s1 EXCEPT !.crimecounts[area].weighted_count =
                                       @ + pred.pred * crimetype_weights[pred.primaryType]] IN
                        IF area \notin DOMAIN s.communities THEN Raised(s2)  \* line 338
                        ELSE LET code == s.communities[area].code
                             IN LoadPredictions(
                                    [s2 EXCEPT !.mapCrimes[code] =
                                         s2.crimecounts[code].absolute_count],
                                    Tail(preds))

\* Lines 340-342.
LoadDistricts(s, table) ==
    [s EXCEPT !.policeDistricts =
        [i \in DOMAIN table |->
            [id |-> table[i].id, total_patrols |-> table[i].patrols,
             available_patrols |-> table[i].patrols, deployed_patrols |-> 0]]]

\* The rows the query of lines 345-347 selects: the columns are compared
\* with the request's date and period arguments as they arrived.
LoadQuery(table, args_date, args_period) ==
    LET Hit(row) == row.date = args_date /\ row.period = args_period
    IN SelectSeq(table, Hit)

\* Lines 348-349.
LoadCells(s, deploy) ==
    [s EXCEPT !.deployments[deploy.community].cells =
                  Put(@, deploy.district,
                      Cell(s.deployments, deploy.community, deploy.district) + deploy.patrols),
              !.deployments[deploy.community].total = @ + deploy.patrols]

\* Lines 350-351.
LoadCounters(s, deploy) ==
    [s EXCEPT !.policeDistricts[deploy.district].available_patrols = @ - deploy.patrols,
              !.policeDistricts[deploy.district].deployed_patrols = @ + deploy.patrols]

\* Line 358.
LoadDistance(s, deploy) ==
    [s EXCEPT !.distanceCost =
         @ + deploy.patrols * s.distances[<<deploy.district, deploy.community>>]]

\* Lines 344-358, one stored deployment after the other.
RECURSIVE LoadDeployments(_, _)
LoadDeployments(s, rows) ==
    IF rows = <<>> THEN Success(s)
    ELSE LET deploy == Head(rows) IN
         IF deploy.community \notin DOMAIN s.deployments THEN Raised(s)  \* line 348
         ELSE LET s1 == LoadCells(s, deploy) IN
              IF deploy.district \notin DOMAIN s.policeDistricts
              THEN Raised(s1)                                            \* line 350
              ELSE LET s2 == RecalculateCommunity(LoadCounters(s1, deploy), deploy.community) IN
                   IF <<deploy.district, deploy.community>> \notin DOMAIN s.distances
                   THEN Raised(s2)                                       \* line 358
                   ELSE LoadDeployments(LoadDistance(s2, deploy), Tail(rows))

\* db: the four tables; answer: what the prediction service gives.
loadDeploymentPlan_get(s, db, args_date, args_period, answer) ==
    LET s1 == LoadKey(s, args_date, args_period) IN
    IF ~answer.ok THEN Failed(s1)                                        \* line 300
    ELSE LET s2 == LoadCommunities(LoadReset(s1), db.community)
             s3 == [s2 EXCEPT !.distances = db.distances]
             r4 == LoadPredictions(s3, answer.result)
         IN IF r4.result = "error" THEN r4
            ELSE LET r5 == LoadDeployments(LoadDistricts(r4.s, db.policedistrict),
                                           LoadQuery(db.patroldeployment, args_date, args_period))
                 IN IF r5.result = "error" THEN r5
                    ELSE LET r6 == RecalculateTotals(r5.s)
                         IN IF r6.result = "error" THEN r6
                            ELSE Success([r6.s EXCEPT !.loaded = TRUE])  \* line 377

----------------------------------------------------------------------------
(* saveDeploymentPlan.get, lines 533-557 *)

RECURSIVE SaveRows(_, _, _)
\* Lines 550-553: one row per key of every community's dict other than
\* 'total'; comms are the communities still to write, dists the keys
\* still to write of the first of them.
SaveRows(s, comms, dists) ==
    IF comms = <<>> THEN <<>>
    ELSE IF dists = <<>>
    THEN IF Len(comms) = 1 THEN <<>>
         ELSE SaveRows(s, Tail(comms), SortedSeq(DOMAIN s.deployments[comms[2]].cells))
    ELSE <<DeploymentRow(s.date, s.period, Head(dists), Head(comms),
                         s.deployments[Head(comms)].cells[Head(dists)])>>
         \o SaveRows(s, comms, Tail(dists))

\* Without the delete of lines 544-547.
SaveKept_Everything(s, table) == table

\* Lines 543-547: the rows of other dates and periods stay.
SaveKept(s, table) ==
    LET Other(row) == ~(row.date = s.date /\ row.period = s.period)
    IN SelectSeq(table, Other)

\* The value is the table after the call and the answer.
saveDeploymentPlan_get(s, table) ==
    IF NotLoaded(s) THEN [table |-> table, result |-> "failed"]          \* line 540
    ELSE LET comms == SortedSeq(DOMAIN s.deployments)
             first == IF comms = <<>> THEN <<>>
                      ELSE SortedSeq(DOMAIN s.deployments[comms[1]].cells)
         IN [table |-> SaveKept(s, table) \o SaveRows(s, comms, first),
             result |-> "success"]

----------------------------------------------------------------------------
(* runOptimization.get, lines 559-750: the integer program *)

LCM(a, b) == (a * b) \div GCD(a, b)

RECURSIVE LCMOf(_)
LCMOf(S) ==
    IF S = {} THEN 1
    ELSE LET x == CHOOSE y \in S : TRUE IN LCM(x, LCMOf(S \ {x}))

Max0(x) == IF x > 0 THEN x ELSE 0

WeightedCount(s, c) == s.crimecounts[s.communities[c].code].weighted_count

\* The communities of the loop of lines 633-644 that pass line 634.
WithDemand(s) == {c \in DOMAIN s.communities : WeightedCount(s, c) # 0}

\* ethnicity_count[1] and ethnicity_count[0], lines 600-607.
EthnicityGroup1(s) == {c \in DOMAIN s.communities : s.communities[c].ethnicity \in {0, 1}}
EthnicityGroup0(s) == (DOMAIN s.communities) \ EthnicityGroup1(s)

\* The decision variables, lines 601-613: one per community and district
\* of the session, named c<comm>d<dist>.
CpxVars(s) == (DOMAIN s.communities) \X (DOMAIN s.policeDistricts)

\* The values of one district's variables within the bounds of line 611,
\* without the district's constraint of line 621.
CpxColumn_Unconstrained(s, d) ==
    [DOMAIN s.communities -> 0..s.policeDistricts[d].total_patrols]

\* The values of one district's variables within the bounds of line 611
\* and the district's constraints of lines 621-622.
CpxColumn(s, d) ==
    LET cap == s.policeDistricts[d].total_patrols
    IN {f \in [DOMAIN s.communities -> 0..cap] : Sum(f, DOMAIN s.communities) <= cap}

RECURSIVE CpxAssignments(_, _)
\* The feasible values of the variables of the districts dists.
CpxAssignments(s, dists) ==
    IF dists = <<>> THEN {EmptyDict}
    ELSE LET d == Head(dists)
             rest == CpxAssignments(s, Tail(dists))
             col == CpxColumn(s, d)
             own == {<<c, d>> : c \in DOMAIN s.communities}
         IN {[p \in (DOMAIN g) \cup own |-> IF p[2] = d THEN f[p[1]] ELSE g[p]] :
                g \in rest, f \in col}

CpxFeasible(s) == CpxAssignments(s, SortedSeq(DOMAIN s.policeDistricts))

\* A common multiple of the denominators of the objective's terms.
ObjScale(s) ==
    LET n == Cardinality(WithDemand(s))
    IN LCMOf({4 * n, Sum([c \in WithDemand(s) |-> WeightedCount(s, c)], WithDemand(s)),
              Cardinality(EthnicityGroup0(s)), Cardinality(EthnicityGroup1(s))}
             \cup {n * WeightedCount(s, c) : c \in WithDemand(s)})

\* What lines 598-660 build from the session: the data of the expressions
\* of the objective.
CpxModel(s) ==
    [vars |-> CpxVars(s),
     communities |-> DOMAIN s.communities,
     districts |-> DOMAIN s.policeDistricts,
     demand |-> WithDemand(s),
     weighted |-> [c \in WithDemand(s) |-> WeightedCount(s, c)],
     totalCrimes |-> Sum([c \in WithDemand(s) |-> WeightedCount(s, c)], WithDemand(s)),
     ethnicity_count |-> <<Cardinality(EthnicityGroup0(s)), Cardinality(EthnicityGroup1(s))>>,
     ethnicityDeployed |-> <<WithDemand(s) \cap EthnicityGroup0(s),
                             WithDemand(s) \cap EthnicityGroup1(s)>>,
     distances |-> [p \in CpxVars(s) |-> s.distances[<<p[2], p[1]>>]],
     scale |-> ObjScale(s)]

\* penalty = max(0, coverage - upper/100) + max(0, lower/100 - coverage),
\* lines 637 and 649, for a coverage and thresholds scaled by k.
CpxPenalty(cov, k) ==
    Max0(cov - (k * upper_penalty_threshold) \div 100)
    + Max0((k * lower_penalty_threshold) \div 100 - cov)

\* The terms of the objective of lines 646-660 under the values x, each
\* times the scale K: citywidePenalty - citywideCoverage, avg_penalty,
\* avg_coverage, the fairness expression and distanceCost_cpx.
CpxTerms(m, x) ==
    LET P == m.demand
        n == Cardinality(P)
        K == m.scale
        T == [c \in m.communities |-> Sum([d \in m.districts |-> x[<<c, d>>]], m.districts)]
        cov == [c \in P |-> (K \div (n * m.weighted[c])) * T[c] * n_crimes_per_patrol]
        pen == [c \in P |-> CpxPenalty(cov[c], K \div n)]
        citywideCoverage == (K \div m.totalCrimes) * Sum(T, P) * n_crimes_per_patrol
    IN [citywide |-> CpxPenalty(citywideCoverage, K) - citywideCoverage,
        avg_penalty |-> Sum(pen, P),
        avg_coverage |-> Sum(cov, P),
        fairness |-> Abs((K \div m.ethnicity_count[1]) * Sum(T, m.ethnicityDeployed[1])
                         - (K \div m.ethnicity_count[2]) * Sum(T, m.ethnicityDeployed[2])),
        distanceCost_cpx |-> K * Sum([p \in m.vars |-> m.distances[p] * x[p]], m.vars)]

\* The objective of lines 664-669 under the values x, times the scale K:
\*   10000 * (100000*(citywidePenalty - citywideCoverage) + 100*avg_penalty
\*            - 10*avg_coverage + fairness) + distanceCost_cpx
\* as the pair <<q, r>> with value 10000*q + r and 0 <= r < 10000.
CpxObjective(m, useFairness, x) ==
    LET t == CpxTerms(m, x)
        obj == 100000 * t.citywide + 100 * t.avg_penalty - 10 * t.avg_coverage
        hi == IF useFairness THEN t.fairness + obj ELSE obj
    IN <<hi + (t.distanceCost_cpx \div 10000), t.distanceCost_cpx % 10000>>

ObjLess(a, b) == a[1] < b[1] \/ (a[1] = b[1] /\ a[2] < b[2])

\* The least objective among a non-empty set of <<values, objective>> pairs.
ObjMin(S) ==
    LET objs == {p[2] : p \in S}
    IN CHOOSE m \in objs : \A o \in objs : ~ObjLess(o, m)

\* The model build raises before line 650 assigns the fairness global:
\* no community with demand (line 646) or an empty group (line 650).
BuildRaisesEarly(s) ==
    \/ WithDemand(s) = {}
    \/ Sum([c \in WithDemand(s) |-> WeightedCount(s, c)], WithDemand(s)) = 0
    \/ EthnicityGroup0(s) = {} \/ EthnicityGroup1(s) = {}

\* The model build raises at line 658: a pair without a distance.
BuildRaisesLate(s) == \E p \in CpxVars(s) : <<p[2], p[1]>> \notin DOMAIN s.distances

\* What model.solve() of line 690 can give: no solution (None), or values
\* of the variables that are feasible and minimize the objective.
NoSolution == [found |-> FALSE, value |-> EmptyDict]
SolveOutcomes(s, useFairness) ==
    IF NotLoaded(s) \/ BuildRaisesEarly(s) \/ BuildRaisesLate(s) THEN {NoSolution}
    ELSE LET m == CpxModel(s)
             scored == {<<x, CpxObjective(m, useFairness, x)>> : x \in CpxFeasible(s)}
             least == ObjMin(scored)
         IN {NoSolution} \cup {[found |-> TRUE, value |-> p[1]] : p \in {q \in scored : q[2] = least}}

----------------------------------------------------------------------------
(* runOptimization.get: the handler *)

\* Lines 701-707 without lines 708-709: the districts keep their counters.
OptimizeReset_KeepsCounters(s, table) ==
    [s EXCEPT !.deployments = EmptyDict, !.mapCoverage = EmptyDict,
              !.mapDeploys = EmptyDict, !.totalCoverage = FracZero,
              !.distanceCost = 0, !.fairness = FairnessReset]

\* Lines 701-709: the plan and its KPIs are reset and the districts are
\* read again from the database.
OptimizeReset(s, table) ==
    LoadDistricts([s EXCEPT !.deployments = EmptyDict, !.mapCoverage = EmptyDict,
                            !.mapDeploys = EmptyDict, !.totalCoverage = FracZero,
                            !.distanceCost = 0, !.fairness = FairnessReset],
                  table)

\* Lines 718-721 for one variable.
WriteBackCells(s, comm_id, dist_id, n_patrols) ==
    [s EXCEPT !.deployments[comm_id].cells =
                  Put(@, dist_id, Cell(s.deployments, comm_id, dist_id) + n_patrols),
              !.deployments[comm_id].total = @ + n_patrols,
              !.policeDistricts[dist_id].available_patrols = @ - n_patrols,
              !.policeDistricts[dist_id].deployed_patrols = @ + n_patrols]

RECURSIVE WriteBackDistricts(_, _, _, _)
\* Lines 715-728 for one community; dists are the districts still to visit.
\* msol[...] of a name the model does not hold raises (line 717).
WriteBackDistricts(s, value, comm_id, dists) ==
    IF dists = <<>> THEN Success(s)
    ELSE LET dist_id == Head(dists) IN
         IF <<comm_id, dist_id>> \notin DOMAIN value THEN Raised(s)
         ELSE LET s1 == RecalculateCommunity(
                            WriteBackCells(s, comm_id, dist_id, value[<<comm_id, dist_id>>]),
                            comm_id)
              IN WriteBackDistricts(
                     [s1 EXCEPT !.distanceCost = @ + value[<<comm_id, dist_id>>] *
                          s.distances[<<dist_id, comm_id>>]],
                     value, comm_id, Tail(dists))

RECURSIVE WriteBack(_, _, _)
\* Lines 711-728; comms are the communities still to visit.
WriteBack(s, value, comms) ==
    IF comms = <<>> THEN Success(s)
    ELSE LET s1 == [s EXCEPT !.deployments =
                        Put(@, Head(comms), [cells |-> EmptyDict, total |-> 0])]
             r == WriteBackDistricts(s1, value, Head(comms),
                                     SortedSeq(DOMAIN s.policeDistricts))
         IN IF r.result = "error" THEN r ELSE WriteBack(r.s, value, Tail(comms))

RECURSIVE OptimizeCoverage(_, _, _, _)
\* Lines 730-736: the total coverage is assigned inside the loop, from the
\* sums over the communities visited so far.
OptimizeCoverage(s, comms, totalcrimes, totaldeploys) ==
    IF comms = <<>> THEN Success(s)
    ELSE LET crimes == totalcrimes + WeightedCount(s, Head(comms))
             deploys == totaldeploys + s.deployments[Head(comms)].total
         IN IF crimes = 0 THEN Raised(s)                                 \* line 736
            ELSE OptimizeCoverage(
                     [s EXCEPT !.totalCoverage =
                          Frac(deploys * n_crimes_per_patrol * 100, crimes)],
                     Tail(comms), crimes, deploys)

\* Lines 738-744.
OptimizeFairness(s) ==
    LET ts == calculateFairnessTStat(s.communities, s.deployments)
    IN IF ts.raised THEN Raised(s)
       ELSE Success([s EXCEPT !.fairness = FairnessScore(ts)])

\* table: the rows of policedistrict; msol: what the solver gives.  The
\* objective decides msol and is the same with and without useFairness
\* from here on.
runOptimization_get(s, table, msol) ==
    IF NotLoaded(s) THEN Failed(s)                                       \* line 577
    ELSE IF BuildRaisesEarly(s) THEN Raised(s)                           \* lines 646, 650
    ELSE LET s1 == [s EXCEPT !.fairness = FairnessExpr] IN               \* line 650
         IF BuildRaisesLate(s) THEN Raised(s1)                           \* line 658
         ELSE IF ~msol.found THEN Raised(s1)                             \* line 699
         ELSE LET r2 == WriteBack(OptimizeReset(s1, table), msol.value,
                                  SortedSeq(DOMAIN s.communities))
              IN IF r2.result = "error" THEN r2
                 ELSE LET r3 == OptimizeCoverage(r2.s, SortedSeq(DOMAIN r2.s.deployments), 0, 0)
                      IN IF r3.result = "error" THEN r3
                         ELSE OptimizeFairness(r3.s)

----------------------------------------------------------------------------
(* getLoadedDeploymentPlan.get, lines 227-250 *)

getLoadedDeploymentPlan_get(s) == IF ~s.loaded THEN Failed(s) ELSE Success(s)

----------------------------------------------------------------------------
(* The service *)

\* Patrol arguments of deployPatrols and undeployPatrols.
PatrolArgs == (-1)..(MaxPatrols + 1)

Database ==
    [community |-> dbCommunity, policedistrict |-> dbPoliceDistrict,
     distances |-> dbDistance, patroldeployment |-> dbPatrolDeployment]

\* A request: its handler, the district, community and patrols arguments of
\* deployPatrols and undeployPatrols, and for runOptimization the
\* useFairness argument and whether the solver gave a solution.
Request(name, district, community, patrols, useFairness, solved) ==
    [name |-> name, district |-> district, community |-> community,
     patrols |-> patrols, useFairness |-> useFairness, solved |-> solved]

FairnessNone == [kind |-> "None", num |-> 0, den |-> 1, df |-> 0]

\* No runOptimization request is between two of its commands; no
\* getLoadedDeploymentPlan was served during one.
ThreadIdle == [pc |-> "idle"]
NoRead == [read |-> FALSE]

\* Lines 125-138: nothing is loaded.  The globals that hold None are
\* written as empty dicts and zeros under unset = TRUE; no handler reads
\* them before a load has assigned them.
Init ==
    /\ unset = TRUE
    /\ loaded = FALSE
    /\ date = "None"
    /\ period = "None"
    /\ communities = EmptyDict
    /\ policeDistricts = EmptyDict
    /\ deployments = EmptyDict
    /\ distances = EmptyDict
    /\ crimecounts = EmptyDict
    /\ totalCoverage = FracZero
    /\ mapCoverage = EmptyDict
    /\ mapCrimes = EmptyDict
    /\ mapDeploys = EmptyDict
    /\ distanceCost = 0
    /\ fairness = FairnessNone
    /\ \E db \in Databases :
          /\ dbCommunity = db.community
          /\ dbDistance = db.distances
          /\ dbPatrolDeployment = db.patroldeployment
    /\ dbPoliceDistrict = PoliceDistrictTable
    /\ op = Request("start", 0, 0, 0, FALSE, FALSE)
    /\ result = "success"
    /\ nops = 0
    /\ thread = ThreadIdle
    /\ observed = NoRead

Answer(r, request) ==
    /\ SetSession(r.s)
    /\ result' = r.result
    /\ op' = request
    /\ nops' = nops + 1
    /\ UNCHANGED threadVars

GetLoaded ==
    /\ nops < MaxOps
    /\ Answer(getLoadedDeploymentPlan_get(Session), Request("getLoaded", 0, 0, 0, FALSE, FALSE))
    /\ UNCHANGED dbVars

Load ==
    /\ nops < MaxOps
    /\ \E args_date \in RawDates, args_period \in RawPeriods, answer \in PredictionAnswers :
          Answer(loadDeploymentPlan_get(Session, Database, args_date, args_period, answer),
                 Request("load", 0, 0, 0, FALSE, FALSE))
    /\ UNCHANGED dbVars

Deploy ==
    /\ nops < MaxOps
    /\ \E district \in DistrictIds, community \in CommunityIds, patrols \in PatrolArgs :
          Answer(deployPatrols_get(Session, district, community, patrols),
                 Request("deploy", district, community, patrols, FALSE, FALSE))
    /\ UNCHANGED dbVars

Undeploy ==
    /\ nops < MaxOps
    /\ \E district \in DistrictIds, community \in CommunityIds, patrols \in PatrolArgs :
          Answer(undeployPatrols_get(Session, district, community, patrols),
                 Request("undeploy", district, community, patrols, FALSE, FALSE))
    /\ UNCHANGED dbVars

Save ==
    /\ nops < MaxOps
    /\ LET r == saveDeploymentPlan_get(Session, dbPatrolDeployment)
       IN /\ dbPatrolDeployment' = r.table
          /\ result' = r.result
    /\ op' = Request("save", 0, 0, 0, FALSE, FALSE)
    /\ nops' = nops + 1
    /\ UNCHANGED <<memVars, dbCommunity, dbPoliceDistrict, dbDistance, threadVars>>

Optimize ==
    /\ nops < MaxOps
    /\ \E useFairness \in BOOLEAN :
          \E msol \in SolveOutcomes(Session, useFairness) :
              Answer(runOptimization_get(Session, dbPoliceDistrict, msol),
                     Request("optimize", 0, 0, 0, useFairness, msol.found))
    /\ UNCHANGED dbVars

Next == GetLoaded \/ Load \/ Deploy \/ Undeploy \/ Save \/ Optimize

Spec == Init /\ [][Next]_vars

----------------------------------------------------------------------------
(* Views of the session used by the properties *)

\* allocation(c, d) for every community of the plan and every district.
Allocation == [c \in DOMAIN deployments |-> [d \in DistrictIds |-> Cell(deployments, c, d)]]

\* allocationTotal(c).
AllocationTotal == [c \in DOMAIN deployments |-> deployments[c].total]

\* The KPI snapshot.
Kpis == <<mapCoverage, mapDeploys, totalCoverage, distanceCost, fairness>>

\* Matrix, community totals, district counters and KPIs.
PlanView == <<Allocation, AllocationTotal, policeDistricts, Kpis>>

\* The last request was an edit of the plan.
IsEdit(request) == request.name \in {"deploy", "undeploy"}

\* Distance cost recomputed from scratch over the matrix; every cell that
\* holds patrols has a distance.
DistanceFromScratch ==
    Sum([p \in DOMAIN distances |->
            IF p[2] \in DOMAIN deployments THEN Cell(deployments, p[2], p[1]) * distances[p] ELSE 0],
        DOMAIN distances)
DistanceCostExact ==
    /\ \A c \in DOMAIN deployments : \A d \in DOMAIN deployments[c].cells :
          deployments[c].cells[d] # 0 => <<d, c>> \in DOMAIN distances
    /\ distanceCost = DistanceFromScratch

----------------------------------------------------------------------------
(* Properties *)

\* C1: in every reachable state the stored total of every community equals
\* the sum of its cells over the districts.
C1_TotalIsSumOfCells ==
    \A c \in DOMAIN deployments :
        deployments[c].total = Sum(deployments[c].cells, DOMAIN deployments[c].cells)

\* A community served from both districts after a successful assign.
C1_Witness ==
    /\ op.name = "deploy" /\ result = "success"
    /\ \E c \in DOMAIN deployments :
          /\ DOMAIN deployments[c].cells = DistrictIds
          /\ \A d \in DistrictIds : deployments[c].cells[d] > 0

\* C2: in every reachable state every district has available + deployed =
\* total, and deployed is the sum of the district's cells over the
\* communities.
C2_DistrictCounters ==
    \A d \in DOMAIN policeDistricts :
        /\ policeDistricts[d].available_patrols + policeDistricts[d].deployed_patrols
              = policeDistricts[d].total_patrols
        /\ policeDistricts[d].deployed_patrols
              = Sum([c \in DOMAIN deployments |-> Cell(deployments, c, d)], DOMAIN deployments)

\* A successful unassign that leaves patrols of the district deployed.
C2_Witness ==
    /\ op.name = "undeploy" /\ result = "success" /\ op.patrols > 0
    /\ policeDistricts[op.district].deployed_patrols > 0

\* C3: every cell is non-negative and every district has
\* 0 <= available <= total.
C3_NeverOverCommitted ==
    /\ \A c \in DOMAIN deployments : \A d \in DOMAIN deployments[c].cells :
          deployments[c].cells[d] >= 0
    /\ \A d \in DOMAIN policeDistricts :
          /\ 0 <= policeDistricts[d].available_patrols
          /\ policeDistricts[d].available_patrols <= policeDistricts[d].total_patrols

\* C4: an assign or unassign that does not report success leaves the
\* matrix, the community totals, the district counters and the KPIs as they
\* were.
C4_EditsAtomic ==
    [][(IsEdit(op') /\ result' # "success") => PlanView' = PlanView]_vars

\* C5: the distance cost a successful load computes, and the distance cost
\* after a successful assign or unassign on a plan whose distance cost was
\* exact, equal the sum of allocation(c,d) * distance(d,c) over the matrix.
C5_DistanceCostIncremental ==
    [][/\ (op'.name = "load" /\ result' = "success") => DistanceCostExact'
       /\ (IsEdit(op') /\ result' = "success" /\ loaded /\ DistanceCostExact)
             => DistanceCostExact']_vars

\* A successful unassign that leaves a positive distance cost.
C5_Witness ==
    /\ op.name = "undeploy" /\ result = "success" /\ op.patrols > 0
    /\ distanceCost > 0 /\ DistanceCostExact

\* C6: an optimize call on a loaded session whose model build fails or whose
\* solve ends without a solution leaves the matrix, the district counters
\* and every KPI field, the fairness score included, as they were.
C6_FailedOptimizeKeepsPlan ==
    [][(/\ op'.name = "optimize"
        /\ ~NotLoaded(Session)
        /\ (BuildRaisesEarly(Session) \/ BuildRaisesLate(Session) \/ ~op'.solved))
          => PlanView' = PlanView]_vars

\* C7: a load that fails because the prediction service gives no usable
\* answer changes no component of the in-memory session, the date and
\* period included.
C7_FailedLoadKeepsSession ==
    [][(op'.name = "load" /\ result' = "failed") => UNCHANGED memVars]_vars

\* C8: after a load that fails part-way the session is either the complete
\* previous session or no session at all.
C8_LoadAtomic ==
    [][(op'.name = "load" /\ result' = "error") => (UNCHANGED memVars \/ NotLoaded(Session'))]_vars

\* C9: on a loaded session, assign with k > 0 to a known district succeeds
\* exactly when k <= available(d), and with k = available(d) it leaves
\* available(d) = 0.
C9_AssignBoundary ==
    [][(/\ op'.name = "deploy"
        /\ op'.patrols > 0
        /\ ~NotLoaded(Session)
        /\ op'.district \in DOMAIN policeDistricts)
          => LET available == policeDistricts[op'.district].available_patrols IN
             /\ (result' = "success") <=> (op'.patrols <= available)
             /\ op'.patrols = available
                   => policeDistricts'[op'.district].available_patrols = 0]_vars

\* C10: on a loaded session, assign and unassign with patrols <= 0 are
\* rejected and leave the matrix, the district counters and the KPIs
\* unchanged.
C10_NonPositiveRejected ==
    [][(IsEdit(op') /\ ~NotLoaded(Session) /\ op'.patrols <= 0)
          => (result' = "failed" /\ PlanView' = PlanView)]_vars

\* C11: on a loaded session, an assign with patrols > available(d) and an
\* unassign with patrols > allocation(c,d) are reported as failures and
\* leave the matrix, the community totals, the district counters, the
\* distance cost and the other KPI fields unchanged.
C11_OverEditRefused ==
    [][(/\ IsEdit(op')
        /\ ~NotLoaded(Session)
        /\ op'.district \in DOMAIN policeDistricts
        /\ op'.community \in DOMAIN deployments
        /\ \/ /\ op'.name = "deploy"
              /\ op'.patrols > policeDistricts[op'.district].available_patrols
           \/ /\ op'.name = "undeploy"
              /\ op'.patrols > Cell(deployments, op'.community, op'.district))
          => /\ result' = "failed"
             /\ PlanView' = PlanView
             /\ mapCrimes' = mapCrimes]_vars

\* An unassign of more patrols than a cell that holds some was refused.
C11_Witness ==
    /\ op.name = "undeploy" /\ result = "failed" /\ ~NotLoaded(Session)
    /\ op.community \in DOMAIN deployments
    /\ Cell(deployments, op.community, op.district) > 0
    /\ op.patrols > Cell(deployments, op.community, op.district)

\* The matrix, community totals, district counters and distance cost of a
\* session record.
EditView(s) ==
    <<[c \in DOMAIN s.deployments |-> [d \in DistrictIds |-> Cell(s.deployments, c, d)]],
      [c \in DOMAIN s.deployments |-> s.deployments[c].total],
      s.policeDistricts, s.distanceCost>>

\* C12: in every loaded state, for every c, d, k for which assign(c,d,k)
\* succeeds, the unassign(c,d,k) that follows succeeds and restores the
\* matrix, the community totals, the district counters and the distance cost
\* to their values before the assign.
C12_AssignUnassignRoundTrip ==
    ~NotLoaded(Session) =>
        \A district \in DistrictIds, community \in CommunityIds, patrols \in PatrolArgs :
            LET assigned == deployPatrols_get(Session, district, community, patrols) IN
            assigned.result = "success" =>
                LET unassigned == undeployPatrols_get(assigned.s, district, community, patrols)
                IN /\ unassigned.result = "success"
                   /\ EditView(unassigned.s) = EditView(Session)

\* C13: after a successful optimize, for every district d the sum over the
\* communities of allocation(c,d) is at most total(d), every cell lies in
\* [0, total(d)], and available(d) >= 0.
C13_OptimizeWithinCapacity ==
    (op.name = "optimize" /\ result = "success") =>
        \A d \in DOMAIN policeDistricts :
            /\ Sum([c \in DOMAIN deployments |-> Cell(deployments, c, d)], DOMAIN deployments)
                  <= policeDistricts[d].total_patrols
            /\ \A c \in DOMAIN deployments :
                  /\ 0 <= Cell(deployments, c, d)
                  /\ Cell(deployments, c, d) <= policeDistricts[d].total_patrols
            /\ policeDistricts[d].available_patrols >= 0

\* A successful optimize that uses a district's whole capacity.
C13_Witness ==
    /\ op.name = "optimize" /\ result = "success"
    /\ \E d \in DOMAIN policeDistricts :
          /\ policeDistricts[d].available_patrols = 0
          /\ policeDistricts[d].deployed_patrols = MaxPatrols

\* citywidePenalty of lines 648-649 is 0: the city-wide coverage
\* deployed * n_crimes_per_patrol / crimes lies within the two thresholds.
CitywidePenaltyZero(crimes, deployed) ==
    /\ lower_penalty_threshold * crimes <= 100 * n_crimes_per_patrol * deployed
    /\ 100 * n_crimes_per_patrol * deployed <= upper_penalty_threshold * crimes

\* Total weighted demand of a session, and the patrols the values x of the
\* variables give to the communities with demand.
CitywideCrimes(s) == Sum([c \in WithDemand(s) |-> WeightedCount(s, c)], WithDemand(s))
CitywideDeployed(s, x) ==
    Sum([p \in DOMAIN x |-> IF p[1] \in WithDemand(s) THEN x[p] ELSE 0], DOMAIN x)

\* C14: when some feasible allocation has city-wide penalty 0, the allocation
\* a successful optimize without fairness writes back has city-wide
\* penalty 0.
C14_PenaltyZeroFirst ==
    [][(/\ op'.name = "optimize" /\ result' = "success" /\ ~op'.useFairness
        /\ \E x \in CpxFeasible(Session) :
              CitywidePenaltyZero(CitywideCrimes(Session), CitywideDeployed(Session, x)))
          => CitywidePenaltyZero(
                 CitywideCrimes(Session'),
                 Sum([c \in WithDemand(Session') |-> deployments'[c].total],
                     WithDemand(Session')))]_vars

\* The objective's terms in the priority order city-wide adequacy,
\* per-community adequacy, distance cost, fairness expression, each with the
\* terms the objective gives one weight class (1000000000, 1000000 and
\* 100000, 1, 10000).
Priorities(t) ==
    <<t.citywide, 10 * t.avg_penalty - t.avg_coverage, t.distanceCost_cpx, t.fairness>>

\* Allocations x and y tie on the first i - 1 priorities and x is strictly
\* better on the i-th.
BetterAt(i, x, y) == (\A j \in 1..(i - 1) : x[j] = y[j]) /\ x[i] < y[i]

\* C15: with fairness enabled, for any two feasible allocations that tie on
\* the higher-priority terms of (city-wide adequacy, per-community adequacy,
\* distance cost, fairness), the one strictly better on the next term has
\* the strictly smaller objective; in particular a strictly smaller distance
\* cost wins over any difference in the fairness expression.
C15_ObjectiveLexicographic ==
    (~NotLoaded(Session) /\ ~BuildRaisesEarly(Session) /\ ~BuildRaisesLate(Session)) =>
        LET m == CpxModel(Session)
            F == CpxFeasible(Session)
            prio == [x \in F |-> Priorities(CpxTerms(m, x))]
            obj == [x \in F |-> CpxObjective(m, TRUE, x)]
        IN \A x \in F, y \in F :
              (\E i \in 1..4 : BetterAt(i, prio[x], prio[y])) => ObjLess(obj[x], obj[y])

\* C16 as stated: an assign or unassign leaves the city-wide coverage and
\* the fairness score of the KPI snapshot as they were before the edit.
C16_TotalsLeftStale ==
    [][(IsEdit(op') /\ ~NotLoaded(Session))
          => (totalCoverage' = totalCoverage /\ fairness' = fairness)]_vars

\* C16: after a successful assign or unassign the city-wide coverage is
\* the sum of the community totals times n_crimes_per_patrol over the total
\* weighted demand, times 100, for the edited matrix, and the fairness score
\* is the one of the edited totals.
C16_TotalsRecomputed ==
    [][(IsEdit(op') /\ result' = "success")
          => /\ totalCoverage' =
                   Frac(Sum([c \in DOMAIN deployments' |-> deployments'[c].total],
                            DOMAIN deployments') * n_crimes_per_patrol * 100,
                        Sum([c \in DOMAIN deployments' |->
                                crimecounts'[communities'[c].code].weighted_count],
                            DOMAIN deployments'))
             /\ fairness' = FairnessScore(calculateFairnessTStat(communities', deployments'))]_vars

\* A successful assign after which both values differ from a plan without
\* patrols.
C16_Witness ==
    /\ op.name = "deploy" /\ result = "success" /\ op.patrols > 0
    /\ totalCoverage.num > 0
    /\ fairness.kind = "pvalue" /\ fairness.num > 0

\* C17: in every reachable state, every community of the plan has a
\* per-community coverage KPI, which is 0 when its weighted demand is 0 and
\* otherwise allocationTotal(c) * n_crimes_per_patrol / weightedCount(c) * 100
\* for the current total.
C17_CommunityCoverage ==
    \A c \in DOMAIN deployments :
        LET code == communities[c].code
            weighted == crimecounts[code].weighted_count
        IN /\ code \in DOMAIN mapCoverage
           /\ mapCoverage[code] =
                 IF weighted = 0 THEN FracZero
                 ELSE Frac(deployments[c].total * n_crimes_per_patrol * 100, weighted)

\* The session holds communities and none of them has weighted demand.
ZeroDemand(s) ==
    /\ DOMAIN s.deployments # {}
    /\ \A c \in DOMAIN s.deployments :
          /\ c \in DOMAIN s.communities
          /\ s.communities[c].code \in DOMAIN s.crimecounts
          /\ s.crimecounts[s.communities[c].code].weighted_count = 0

\* Every stored deployment has a distance for its pair.
HistoryHasDistances ==
    \A i \in DOMAIN dbPatrolDeployment :
        <<dbPatrolDeployment[i].district, dbPatrolDeployment[i].community>> \in DOMAIN dbDistance

\* C18: when the total weighted demand over all communities is 0, a load
\* that got its predictions, an assign within capacity and an optimize
\* complete successfully and report city-wide coverage 0.
C18_ZeroDemandDegrades ==
    [][(\/ /\ op'.name = "load" /\ result' # "failed"
           /\ HistoryHasDistances
           /\ DOMAIN policeDistricts' # {}
           /\ ZeroDemand(Session')
        \/ /\ op'.name = "deploy" /\ ~NotLoaded(Session) /\ ZeroDemand(Session)
           /\ op'.district \in DOMAIN policeDistricts
           /\ op'.community \in DOMAIN deployments
           /\ <<op'.district, op'.community>> \in DOMAIN distances
           /\ op'.patrols > 0
           /\ op'.patrols <= policeDistricts[op'.district].available_patrols
        \/ /\ op'.name = "optimize" /\ ~NotLoaded(Session) /\ ZeroDemand(Session))
          => (result' = "success" /\ totalCoverage' = FracZero)]_vars

\* One of the two fairness groups of the session has no community.
EmptyGroup(s) ==
    /\ DOMAIN s.communities # {}
    /\ EthnicityGroup0(s) = {} \/ EthnicityGroup1(s) = {}

\* C19: on a loaded session where one fairness group is empty, an assign
\* within capacity to a pair with a distance, with nonzero total weighted
\* demand, succeeds, and the fairness computation gives a value for the
\* allocation it leaves.
C19_EmptyGroupNeutral ==
    [][(/\ op'.name = "deploy" /\ ~NotLoaded(Session) /\ EmptyGroup(Session)
        /\ op'.district \in DOMAIN policeDistricts
        /\ op'.community \in DOMAIN deployments
        /\ <<op'.district, op'.community>> \in DOMAIN distances
        /\ op'.patrols > 0
        /\ op'.patrols <= policeDistricts[op'.district].available_patrols
        /\ TotalCrimes(Session) # 0)
          => /\ ~calculateFairnessTStat(communities', deployments').raised
             /\ result' = "success"]_vars

\* Both fairness groups of the plan hold communities, some total is not 0,
\* and the mean total per community is the same in both.
EqualMeans(s) ==
    LET g1 == {c \in DOMAIN s.deployments : s.communities[c].ethnicity \in {0, 1}}
        g0 == (DOMAIN s.deployments) \ g1
        tot == [c \in DOMAIN s.deployments |-> s.deployments[c].total]
    IN /\ g0 # {} /\ g1 # {}
       /\ \E c \in DOMAIN s.deployments : tot[c] # 0
       /\ Sum(tot, g0) * Cardinality(g1) = Sum(tot, g1) * Cardinality(g0)

\* C20: an assign that leaves the two fairness groups with equal mean
\* totals succeeds, the fairness computation yields t = 0 for the plan it
\* leaves, and the fairness score is the one of t = 0 (100).
C20_EqualMeansScore100 ==
    [][(/\ op'.name = "deploy" /\ ~NotLoaded(Session)
        /\ op'.district \in DOMAIN policeDistricts
        /\ op'.community \in DOMAIN deployments
        /\ <<op'.district, op'.community>> \in DOMAIN distances
        /\ op'.patrols > 0
        /\ op'.patrols <= policeDistricts[op'.district].available_patrols
        /\ TotalCrimes(Session) # 0
        /\ EqualMeans(Session'))
          => LET ts == calculateFairnessTStat(communities', deployments') IN
             /\ ~ts.raised /\ ts.num = 0
             /\ result' = "success"
             /\ fairness'.kind = "pvalue" /\ fairness'.num = 0]_vars

\* The plan of a loaded session before any historical entry: no cells, every
\* district with all its patrols available, distance cost 0.
WithoutHistory(s) ==
    LoadDistricts([s EXCEPT !.deployments =
                                [c \in DOMAIN s.deployments |-> [cells |-> EmptyDict, total |-> 0]],
                            !.distanceCost = 0],
                  dbPoliceDistrict)

RECURSIVE AssignEach(_, _)
\* assign applied to each entry in input order: an entry whose patrols are
\* not positive or exceed the district's available patrols is rejected.
AssignEach(s, rows) ==
    IF rows = <<>> THEN s
    ELSE LET e == Head(rows)
         IN IF e.patrols <= 0 \/ DeployRefused(s, e.district, e.patrols)
            THEN AssignEach(s, Tail(rows))
            ELSE AssignEach(DeployDistance(DeployCells(s, e.district, e.community, e.patrols),
                                           e.district, e.community, e.patrols),
                            Tail(rows))

\* The date argument of the load that set the session's date.
RawDateOf(d) == CHOOSE a \in RawDates : strptime_date(json_loads(a)) = d

\* C21: after a successful load the matrix, the community totals, the
\* district counters and the distance cost equal those that assign, applied
\* to the historical entries in input order with its preconditions, gives.
C21_HistoryAsAssigns ==
    [][(op'.name = "load" /\ result' = "success")
          => EditView(Session') =
                EditView(AssignEach(WithoutHistory(Session'),
                                    LoadQuery(dbPatrolDeployment, RawDateOf(date'),
                                              CHOOSE p \in RawPeriods : json_loads(p) = period')))]_vars

\* C22: a successful optimize leaves the session that the same optimize
\* gives on the same session with an empty allocation, for some solution of
\* the solver, and every cell of the matrix is that solution's value for
\* its pair.
C22_OptimizeReplacesPlan ==
    [][(op'.name = "optimize" /\ result' = "success")
          => LET cleared == WithoutHistory(Session) IN
             \E msol \in SolveOutcomes(cleared, op'.useFairness) :
                /\ msol.found
                /\ Session' = runOptimization_get(cleared, dbPoliceDistrict, msol).s
                /\ \A c \in DOMAIN deployments' :
                      /\ \A d \in DOMAIN deployments'[c].cells : <<c, d>> \in DOMAIN msol.value
                      /\ \A d \in DOMAIN policeDistricts' :
                            Cell(deployments', c, d) = msol.value[<<c, d>>]]_vars

\* An optimize right after the load of a stored plan that held a patrol in
\* a cell the solution leaves empty.
C22_Witness ==
    /\ op.name = "optimize" /\ result = "success" /\ nops = 2
    /\ dbPatrolDeployment = DeploymentsStored /\ date = "2019-01-01"
    /\ Cell(deployments, 2, 1) = 0


\* The commands of runOptimization before line 730 complete: the session
\* is loaded, the model is built, the solver gives a solution.
SolvedAndWritten ==
    /\ op'.name = "optimize" /\ op'.solved
    /\ ~NotLoaded(Session) /\ ~BuildRaisesEarly(Session) /\ ~BuildRaisesLate(Session)
    /\ DOMAIN deployments' = DOMAIN communities'

\* C23: an optimize whose solution is written back, with nonzero total
\* weighted demand, succeeds and reports the city-wide coverage
\* sum of allocationTotal(c) * crimesPerPatrol over sum of weightedCount(c),
\* times 100, also when single communities have no demand.
C23_OptimizeCitywideCoverage ==
    [][(/\ SolvedAndWritten
        /\ TotalCrimes(Session') # 0
        /\ ~calculateFairnessTStat(communities', deployments').raised)
          => /\ result' = "success"
             /\ totalCoverage' = Frac(TotalDeploys(Session') * n_crimes_per_patrol * 100,
                                      TotalCrimes(Session'))]_vars


----------------------------------------------------------------------------
(* runOptimization served next to getLoadedDeploymentPlan.  The handlers
   share the globals of lines 125-138 and take no lock; a request that
   reads can be served between two commands of runOptimization.  Requests
   that write are sent one at a time. *)

\* Lines 247-249: the plan getLoadedDeploymentPlan returns.
LoadedPlan(s) ==
    [communities |-> s.communities, districts |-> s.policeDistricts,
     mapCoverage |-> s.mapCoverage, mapCrimes |-> s.mapCrimes,
     mapDeploys |-> s.mapDeploys, distanceCost |-> s.distanceCost,
     fairness |-> s.fairness, totalCoverage |-> s.totalCoverage]

\* runOptimization with the solver's solution msol at position pc; pre is
\* the session the request found, todo the communities still to write.
Running(pc, pre, useFairness, msol, todo) ==
    [pc |-> pc, pre |-> pre, useFairness |-> useFairness, msol |-> msol, todo |-> todo]
At(pc) == [thread EXCEPT !.pc = pc]

\* A runOptimization request ends: its answer, or the exception.
ThreadEnds(r) ==
    /\ SetSession(r.s)
    /\ result' = r.result
    /\ op' = Request("optimize", 0, 0, 0, thread.useFairness, TRUE)
    /\ nops' = nops + 1
    /\ thread' = ThreadIdle
    /\ UNCHANGED <<dbVars, observed>>

ThreadGoes(s, next) ==
    /\ SetSession(s)
    /\ thread' = next
    /\ UNCHANGED <<dbVars, op, result, nops, observed>>

LoadAlone == thread.pc = "idle" /\ Load

\* Lines 577-699 where the request ends before line 701.
OptimizeEndsEarly ==
    /\ thread.pc = "idle" /\ nops < MaxOps
    /\ \E useFairness \in BOOLEAN :
          \E msol \in SolveOutcomes(Session, useFairness) :
              /\ NotLoaded(Session) \/ BuildRaisesEarly(Session)
                    \/ BuildRaisesLate(Session) \/ ~msol.found
              /\ Answer(runOptimization_get(Session, dbPoliceDistrict, msol),
                        Request("optimize", 0, 0, 0, useFairness, msol.found))
    /\ UNCHANGED dbVars

\* Lines 577-699 with a solution: the model is built (line 650 assigns the
\* fairness global) and solved.
OptimizeSolves ==
    /\ thread.pc = "idle" /\ nops < MaxOps
    /\ ~NotLoaded(Session) /\ ~BuildRaisesEarly(Session) /\ ~BuildRaisesLate(Session)
    /\ \E useFairness \in BOOLEAN :
          \E msol \in SolveOutcomes(Session, useFairness) :
              /\ msol.found
              /\ SetSession([Session EXCEPT !.fairness = FairnessExpr])
              /\ thread' = Running("reset", Session, useFairness, msol,
                                   SortedSeq(DOMAIN communities))
    /\ observed' = NoRead
    /\ UNCHANGED <<dbVars, op, result, nops>>

\* Lines 701-709.
OptimizeResets ==
    /\ thread.pc = "reset"
    /\ ThreadGoes(OptimizeReset(Session, dbPoliceDistrict), At("write"))

\* Lines 711-728 for one community.
OptimizeWrites ==
    /\ thread.pc = "write"
    /\ IF thread.todo = <<>> THEN ThreadGoes(Session, At("coverage"))
       ELSE LET comm_id == Head(thread.todo)
                r == WriteBackDistricts(
                         [Session EXCEPT !.deployments =
                              Put(@, comm_id, [cells |-> EmptyDict, total |-> 0])],
                         thread.msol.value, comm_id, SortedSeq(DOMAIN policeDistricts))
            IN IF r.result = "error" THEN ThreadEnds(r)
               ELSE ThreadGoes(r.s, [thread EXCEPT !.todo = Tail(@)])

\* Lines 730-736.
OptimizeCovers ==
    /\ thread.pc = "coverage"
    /\ LET r == OptimizeCoverage(Session, SortedSeq(DOMAIN deployments), 0, 0)
       IN IF r.result = "error" THEN ThreadEnds(r) ELSE ThreadGoes(r.s, At("fairness"))

\* Lines 738-750.
OptimizeReturns ==
    /\ thread.pc = "fairness"
    /\ ThreadEnds(OptimizeFairness(Session))

\* getLoadedDeploymentPlan served while runOptimization is between two
\* commands (lines 245-249; the session is loaded).
ReadMeanwhile ==
    /\ thread.pc # "idle"
    /\ ~observed.read
    /\ observed' = [read |-> TRUE, plan |-> LoadedPlan(Session)]
    /\ UNCHANGED <<memVars, dbVars, op, result, nops, thread>>

NextThreads ==
    \/ LoadAlone \/ OptimizeEndsEarly \/ OptimizeSolves \/ OptimizeResets
    \/ OptimizeWrites \/ OptimizeCovers \/ OptimizeReturns \/ ReadMeanwhile

SpecThreads == Init /\ [][NextThreads]_vars

\* The plan before the running optimize began, and the plan after it when
\* it completes.
PlanSides ==
    LET r == runOptimization_get(thread.pre, dbPoliceDistrict, thread.msol)
    IN {LoadedPlan(thread.pre)} \cup (IF r.result = "success" THEN {LoadedPlan(r.s)} ELSE {})

\* C24: a getLoadedDeploymentPlan served while an optimize runs returns
\* the whole plan from before the optimize or the whole plan from after it.
C24_ReadsSeeOneSide ==
    [][(~observed.read /\ observed'.read) => observed'.plan \in PlanSides]_vars


\* C25: after a successful save the records stored under the session's
\* date and period are the cells of the in-memory matrix, one record per
\* cell, the records of other dates and periods are as before, and the
\* in-memory session is as before.
C25_SaveReplacesRecords ==
    [][(op'.name = "save" /\ result' = "success")
          => LET Mine(row) == row.date = date /\ row.period = period
                 Other(row) == ~Mine(row)
                 after == SelectSeq(dbPatrolDeployment', Mine)
                 cells == {DeploymentRow(date, period, d, c, deployments[c].cells[d]) :
                              <<c, d>> \in {p \in (DOMAIN deployments) \X DistrictIds :
                                               p[2] \in DOMAIN deployments[p[1]].cells}}
             IN /\ {after[i] : i \in DOMAIN after} = cells
                /\ Len(after) = Cardinality(cells)
                /\ \A c \in DOMAIN deployments : DOMAIN deployments[c].cells \subseteq DistrictIds
                /\ SelectSeq(dbPatrolDeployment', Other) = SelectSeq(dbPatrolDeployment, Other)
                /\ Session' = Session]_vars

\* A save that removed the record stored earlier under the session's date
\* and period and wrote the cell of an assign.
C25_Witness ==
    /\ op.name = "save" /\ result = "success" /\ date = "2019-01-02"
    /\ \E i \in DOMAIN dbPatrolDeployment : dbPatrolDeployment[i] = DeploymentsStored[1]
    /\ \A i \in DOMAIN dbPatrolDeployment : dbPatrolDeployment[i] # DeploymentsStored[3]
    /\ \E i \in DOMAIN dbPatrolDeployment :
          dbPatrolDeployment[i].date = "2019-01-02" /\ dbPatrolDeployment[i].patrols > 0


RECURSIVE PredictedCount(_, _)
\* The sum of pred over the predictions of one community code that have a
\* community, a crime type and a code other than "0".
PredictedCount(preds, code) ==
    IF preds = <<>> THEN 0
    ELSE LET pred == Head(preds)
             included == /\ pred.communityArea # "None" /\ pred.primaryType # "None"
                         /\ pred.communityArea # "0"
         IN (IF included /\ int(pred.communityArea) = code THEN pred.pred ELSE 0)
            + PredictedCount(Tail(preds), code)

\* C26: after a successful load the absolute crime count of every community
\* and its figure on the map both equal the sum of the included
\* predictions of the community's code, for every answer of the prediction
\* service the load can have got.
C26_CrimeFiguresByCode ==
    [][(op'.name = "load" /\ result' = "success")
          => \A args_period \in RawPeriods, answer \in PredictionAnswers :
                LET r == loadDeploymentPlan_get(Session, Database, RawDateOf(date'),
                                                args_period, answer)
                IN (r.result = "success" /\ r.s = Session')
                      => \A c \in DOMAIN communities' :
                            LET code == communities'[c].code
                            IN /\ crimecounts'[code].absolute_count
                                     = PredictedCount(answer.result, code)
                               /\ mapCrimes'[code] = PredictedCount(answer.result, code)]_vars


\* C27: while no load has succeeded, assign, unassign, optimize and save
\* answer with a failure and change neither the in-memory state nor the
\* stored records, and getLoadedDeploymentPlan answers that no plan is
\* loaded.
C27_NothingLoadedRefused ==
    [][(~loaded /\ op'.name \in {"deploy", "undeploy", "optimize", "save", "getLoaded"})
          => /\ result' = "failed"
             /\ Session' = Session
             /\ Database' = Database]_vars

\* An assign refused after a load that ended in an exception: the globals
\* hold the communities, no plan is loaded.
C27_Witness ==
    /\ op.name = "deploy" /\ op.patrols = 1 /\ result = "failed"
    /\ ~loaded /\ ~unset /\ DOMAIN deployments # {}

====
